---------------------------- MODULE Spec2Model ----------------------------
(***************************************************************************)
(* word-unscrambler (src/main.rs): the additive fingerprint, the dictionary *)
(* index, the candidate resolver, the per-token two-pass resolution with   *)
(* its rendering, and the line/token loop of unscramble.                   *)
(*                                                                         *)
(* A char is its Unicode code point (a natural number), a string (&str,    *)
(* String) is a sequence of chars, a byte slice is a sequence of 0..255.   *)
(* An Option<char> is <<>> (None) or <<c>> (Some(c)).  A u64 is four       *)
(* 16-bit limbs, least significant first, so that the full 64-bit width is *)
(* kept although TLC's integers have 32 bits only.                         *)
(***************************************************************************)
EXTENDS Integers, Sequences, FiniteSets, TLC

VARIABLES
    dictionary,            \* the lines of german.dic, in file order
    scrambled_string,      \* the text handed to unscramble
    output,                \* everything written to the output sink so far
    DICTIONARY,            \* the Lazy index: <<>> before first use, <<map>> after
    pc,                    \* position in unscramble / unscramble_line
    lines_left,            \* the rest of scrambled_string.lines()
    first_line,
    words_left,            \* the rest of scrambled_line.split_ascii_whitespace()
    first_word,
    scrambled_word,
    clean_scrambled_word,
    word_candidates,
    calls,                 \* log of the find_word_candidates calls made for the current token
    token_mark,            \* length of output when the current token's rendering begins
    hash_input,            \* the byte slice being folded by associative_hash
    hash_start,            \* the accumulator the observed part of the fold started from
    hash_acc,              \* the fold's accumulator
    hash_rest              \* the bytes the fold has not consumed yet

vars == <<dictionary, scrambled_string, output, DICTIONARY, pc, lines_left, first_line,
          words_left, first_word, scrambled_word, clean_scrambled_word, word_candidates,
          calls, token_mark, hash_input, hash_start, hash_acc, hash_rest>>

textVars == <<dictionary, scrambled_string, output, DICTIONARY, lines_left, first_line,
              words_left, first_word, scrambled_word, clean_scrambled_word, word_candidates,
              calls, token_mark>>

hashVars == <<hash_input, hash_start, hash_acc, hash_rest>>

-----------------------------------------------------------------------------
(* Bounds of the model *)

\* most lines in the dictionary
MaxDict == 2
\* most chars in the single token of a resolver run
MaxTokenLen == 2
\* most chars in the text of a line/token structure run
MaxTextLen == 4
\* most bytes folded in a fingerprint run
MaxBytes == 3

\* chars of the tokens of a resolver run: a b B a-umlaut A-umlaut and the full stop
TokenChars == {97, 98, 66, 228, 196, 46}

\* dictionary lines of a resolver run:
\*   "ab", "ba" (anagrams), "Ba" (capitalised entry), "b A" (same byte sum as "ab"),
\*   "a-umlaut b", "A-umlaut b " (same byte sum as "a-umlaut b")
DictPool == {<<97, 98>>, <<98, 97>>, <<66, 97>>, <<98, 32, 65>>,
             <<228, 98>>, <<196, 98, 32>>}

\* most chars of the line of a one-line dictionary
MaxWordLen == 3

\* chars of the line of a one-line dictionary: space A a (space + A has the byte sum of a)
DictChars == {32, 65, 97}

\* chars of the text of a structure run: a ( . space newline
TextChars == {97, 40, 46, 32, 10}

\* dictionary lines of a structure run: the empty line and "a"
TextDictPool == {<<>>, <<97>>}

\* byte values of a fingerprint run
HashBytes == {1, 200, 255}

SeqsUpTo(S, n) == UNION {[1..k -> S] : k \in 0..n}

-----------------------------------------------------------------------------
(* u64 arithmetic *)

LIMB == 65536

U64_ZERO == <<0, 0, 0, 0>>

U64_MAX == <<LIMB - 1, LIMB - 1, LIMB - 1, LIMB - 1>>

\* u64::from(u8)
u64_from(b) == <<b, 0, 0, 0>>

\* a mutant of wrapping_add: the sum sticks at u64::MAX instead of wrapping
saturating_add(a, b) ==
    LET s1 == a[1] + b[1]
        s2 == a[2] + b[2] + (s1 \div LIMB)
        s3 == a[3] + b[3] + (s2 \div LIMB)
        s4 == a[4] + b[4] + (s3 \div LIMB)
    IN  IF s4 >= LIMB THEN U64_MAX
        ELSE <<s1 % LIMB, s2 % LIMB, s3 % LIMB, s4 % LIMB>>

\* u64::wrapping_add: addition modulo 2^64, the carry out of the top limb dropped
wrapping_add(a, b) ==
    LET s1 == a[1] + b[1]
        s2 == a[2] + b[2] + (s1 \div LIMB)
        s3 == a[3] + b[3] + (s2 \div LIMB)
        s4 == a[4] + b[4] + (s3 \div LIMB)
    IN  <<s1 % LIMB, s2 % LIMB, s3 % LIMB, s4 % LIMB>>

\* Iterator::fold(init, u64::wrapping_add) over the bytes mapped by u64::from
RECURSIVE fold(_, _)
fold(init, s) ==
    IF s = <<>> THEN init
    ELSE fold(wrapping_add(init, u64_from(Head(s))), Tail(s))

associative_hash(s) == fold(U64_ZERO, s)

-----------------------------------------------------------------------------
(* chars and strings *)

\* the UTF-8 encoding of one char (one to three bytes)
encode_utf8(c) ==
    IF c < 128 THEN <<c>>
    ELSE IF c < 2048 THEN <<192 + (c \div 64), 128 + (c % 64)>>
    ELSE <<224 + (c \div 4096), 128 + ((c \div 64) % 64), 128 + (c % 64)>>

\* str::as_bytes
RECURSIVE as_bytes(_)
as_bytes(s) == IF s = <<>> THEN <<>> ELSE encode_utf8(Head(s)) \o as_bytes(Tail(s))

\* char::to_ascii_uppercase: only a..z change
to_ascii_uppercase(c) == IF c >= 97 /\ c <= 122 THEN c - 32 ELSE c

\* char::is_uppercase on Basic Latin and Latin-1: A..Z and U+00C0..U+00DE but U+00D7
is_uppercase(c) == (c >= 65 /\ c <= 90) \/ (c >= 192 /\ c <= 222 /\ c # 215)

\* str::to_lowercase on Basic Latin and Latin-1
to_lowercase(s) == [i \in 1..Len(s) |-> IF is_uppercase(s[i]) THEN s[i] + 32 ELSE s[i]]

\* char::is_ascii_whitespace: tab, line feed, form feed, carriage return, space
is_ascii_whitespace(c) == c \in {9, 10, 12, 13, 32}

Count(s, c) == Cardinality({i \in 1..Len(s) : s[i] = c})

Contains(s, c) == \E i \in 1..Len(s) : s[i] = c

-----------------------------------------------------------------------------
(* the text iterators *)

\* the least index of a set of indices, 0 when there is none
FirstIndex(idx) == IF idx = {} THEN 0 ELSE CHOOSE i \in idx : \A j \in idx : i <= j

\* a line's "\r" before its "\n" is not part of the line
strip_cr(s) == IF s # <<>> /\ s[Len(s)] = 13 THEN SubSeq(s, 1, Len(s) - 1) ELSE s

\* str::lines: the pieces ended by "\n"; a last piece without "\n" is a line too
\* unless it is empty
RECURSIVE lines(_)
lines(s) ==
    IF s = <<>> THEN <<>>
    ELSE LET i == FirstIndex({j \in 1..Len(s) : s[j] = 10})
         IN  IF i = 0 THEN <<s>>
             ELSE <<strip_cr(SubSeq(s, 1, i - 1))>> \o lines(SubSeq(s, i + 1, Len(s)))

\* str::split_ascii_whitespace: the maximal runs of non-whitespace chars
RECURSIVE split_ascii_whitespace(_)
split_ascii_whitespace(s) ==
    LET b == FirstIndex({j \in 1..Len(s) : ~is_ascii_whitespace(s[j])})
    IN  IF b = 0 THEN <<>>
        ELSE LET rest == SubSeq(s, b, Len(s))
                 e == FirstIndex({j \in 1..Len(rest) : is_ascii_whitespace(rest[j])})
             IN  IF e = 0 THEN <<rest>>
                 ELSE <<SubSeq(rest, 1, e - 1)>>
                          \o split_ascii_whitespace(SubSeq(rest, e, Len(rest)))

-----------------------------------------------------------------------------
(* the special characters *)

\* ( and the low double quotation mark U+201E
SPECIAL_CHARS_PRE == <<40, 8222>>

\* , . ) the left double quotation mark U+201C : - ?
SPECIAL_CHARS_POST == <<44, 46, 41, 8220, 58, 45, 63>>

SPECIAL_CHARS == SPECIAL_CHARS_PRE \o SPECIAL_CHARS_POST

-----------------------------------------------------------------------------
(* the dictionary index *)

EmptyMap == [k \in {} |-> <<>>]

\* a mutant of entry_push: the word is put in front of its bucket
entry_push_front(map, word) ==
    LET k == associative_hash(as_bytes(word))
    IN  IF k \in DOMAIN map THEN [map EXCEPT ![k] = <<word>> \o @]
        ELSE map @@ (k :> <<word>>)

\* dictionary_map.entry(associative_hash(word.as_bytes())).or_default().push(word)
entry_push(map, word) ==
    LET k == associative_hash(as_bytes(word))
    IN  IF k \in DOMAIN map THEN [map EXCEPT ![k] = Append(@, word)]
        ELSE map @@ (k :> <<word>>)

RECURSIVE for_each_push(_, _)
for_each_push(map, words) ==
    IF words = <<>> THEN map
    ELSE for_each_push(entry_push(map, Head(words)), Tail(words))

\* the initialiser of the Lazy DICTIONARY
build_dictionary(words) == for_each_push(EmptyMap, words)

\* Lazy::force: the initialiser runs on the first dereference only
force(lazy, words) == IF lazy = <<>> THEN <<build_dictionary(words)>> ELSE lazy

-----------------------------------------------------------------------------
(* the candidate resolver *)

\* the first filter: first_char.map_or(true, |fc| word.chars().next()
\*                       .map_or(true, |first| first.to_ascii_uppercase() == fc))
first_char_filter(word, first_char) ==
    first_char = <<>> \/ word = <<>> \/ to_ascii_uppercase(word[1]) = first_char[1]

\* a mutant of count_filter: the bucket is trusted
count_filter_off(word, search_word, first_char) == TRUE

\* the second filter: every distinct char of search_word after the first
\* first_char.is_some() chars occurs as often in word as in search_word
count_filter(word, search_word, first_char) ==
    \A c \in {search_word[i] : i \in (Len(first_char) + 1)..Len(search_word)} :
        Count(search_word, c) = Count(word, c)

find_word_candidates(dictionary_map, search_word, first_char) ==
    LET key == associative_hash(as_bytes(search_word))
        First(word) == first_char_filter(word, first_char)
        Counts(word) == count_filter(word, search_word, first_char)
    IN  IF key \notin DOMAIN dictionary_map THEN <<>>
        ELSE SelectSeq(SelectSeq(dictionary_map[key], First), Counts)

-----------------------------------------------------------------------------
(* one token of unscramble_line *)

NotSpecial(c) == ~Contains(SPECIAL_CHARS, c)

IsPre(c) == Contains(SPECIAL_CHARS_PRE, c)

IsPost(c) == Contains(SPECIAL_CHARS_POST, c)

\* scrambled_word.chars().filter(|c| !SPECIAL_CHARS.contains(c)).collect()
clean(word) == SelectSeq(word, NotSpecial)

\* a mutant of needs_second_pass: the second pass always runs
second_pass_always(candidates) == TRUE

\* if word_candidates.is_empty()
needs_second_pass(candidates) == candidates = <<>>

\* clean_scrambled_word.chars().find(|c| c.is_uppercase())
first_uppercase(s) ==
    LET i == FirstIndex({j \in 1..Len(s) : is_uppercase(s[j])}) IN IF i = 0 THEN <<>> ELSE <<s[i]>>

\* a mutant of make_first_ascii_uppercase: the candidate is left as found
leave_first_char(word) == word

\* if let Some(first_char) = word.get_mut(..1) { first_char.make_ascii_uppercase() }:
\* get_mut(..1) is None for the empty word and when byte 1 is inside the first char
make_first_ascii_uppercase(word) ==
    IF word = <<>> \/ Len(encode_utf8(word[1])) > 1 THEN word
    ELSE [word EXCEPT ![1] = to_ascii_uppercase(@)]

\* a mutant of sort_unstable: the chars stay in the token's order
sort_skipped(chars) == chars

\* chars.sort_unstable(): ascending code points
RECURSIVE sort_unstable(_)
sort_unstable(chars) ==
    IF chars = <<>> THEN <<>>
    ELSE LET m == CHOOSE i \in 1..Len(chars) : \A j \in 1..Len(chars) : chars[i] <= chars[j]
         IN  <<chars[m]>>
                 \o sort_unstable(SubSeq(chars, 1, m - 1) \o SubSeq(chars, m + 1, Len(chars)))

\* <str as Debug>::fmt: the string in double quotes, " and \ behind a backslash
RECURSIVE escape_debug(_)
escape_debug(w) ==
    IF w = <<>> THEN <<>>
    ELSE (IF Head(w) \in {34, 92} THEN <<92, Head(w)>> ELSE <<Head(w)>>)
             \o escape_debug(Tail(w))

debug_str(w) == <<34>> \o escape_debug(w) \o <<34>>

RECURSIVE debug_entries(_)
debug_entries(ws) ==
    IF ws = <<>> THEN <<>>
    ELSE IF Len(ws) = 1 THEN debug_str(ws[1])
    ELSE debug_str(ws[1]) \o <<44, 32>> \o debug_entries(Tail(ws))

\* {word_candidates:?} of a slice of Strings: [ "..", ".." ]
debug_list(ws) == <<91>> \o debug_entries(ws) \o <<93>>

\* the match on &word_candidates[..]
render_body(candidates, clean_word) ==
    IF candidates = <<>> THEN <<96>> \o sort_unstable(clean_word) \o <<96>>
    ELSE IF Len(candidates) = 1 THEN candidates[1]
    ELSE debug_list(candidates)

\* a mutant of render_token: the prefix chars are written after the body
render_token_prefix_late(word, clean_word, candidates) ==
    render_body(candidates, clean_word) \o SelectSeq(word, IsPre) \o SelectSeq(word, IsPost)

\* the three writes for a token: its prefix chars, the body, its postfix chars
render_token(word, clean_word, candidates) ==
    SelectSeq(word, IsPre) \o render_body(candidates, clean_word) \o SelectSeq(word, IsPost)

\* a mutant of word_separator: a space before every word
word_separator_always(is_first) == <<32>>

\* if !first_word { write!(output, " ") }
word_separator(is_first) == IF is_first THEN <<>> ELSE <<32>>

\* if !first_line { writeln!(output) }
line_separator(is_first) == IF is_first THEN <<>> ELSE <<10>>

-----------------------------------------------------------------------------
(* unscramble and unscramble_line *)

\* for scrambled_line in scrambled_string.lines(): the next line
NextLine ==
    /\ pc = "unscramble"
    /\ lines_left # <<>>
    /\ output' = output \o line_separator(first_line)
    /\ words_left' = split_ascii_whitespace(Head(lines_left))
    /\ lines_left' = Tail(lines_left)
    /\ first_word' = TRUE
    /\ pc' = "unscramble_line"
    /\ UNCHANGED <<dictionary, scrambled_string, DICTIONARY, first_line, scrambled_word,
                   clean_scrambled_word, word_candidates, calls, token_mark>>
    /\ UNCHANGED hashVars

\* the lines are exhausted: unscramble returns
Return ==
    /\ pc = "unscramble"
    /\ lines_left = <<>>
    /\ pc' = "done"
    /\ UNCHANGED textVars
    /\ UNCHANGED hashVars

\* for scrambled_word in scrambled_line.split_ascii_whitespace(): the next word,
\* the space before it and its clean form
NextWord ==
    /\ pc = "unscramble_line"
    /\ words_left # <<>>
    /\ output' = output \o word_separator(first_word)
    /\ token_mark' = Len(output')
    /\ scrambled_word' = Head(words_left)
    /\ clean_scrambled_word' = clean(Head(words_left))
    /\ words_left' = Tail(words_left)
    /\ word_candidates' = <<>>
    /\ calls' = <<>>
    /\ pc' = "pass1"
    /\ UNCHANGED <<dictionary, scrambled_string, DICTIONARY, lines_left, first_line,
                   first_word>>
    /\ UNCHANGED hashVars

\* the words are exhausted: unscramble_line returns and first_line is cleared
EndLine ==
    /\ pc = "unscramble_line"
    /\ words_left = <<>>
    /\ first_line' = FALSE
    /\ pc' = "unscramble"
    /\ UNCHANGED <<dictionary, scrambled_string, output, DICTIONARY, lines_left,
                   words_left, first_word, scrambled_word, clean_scrambled_word,
                   word_candidates, calls, token_mark>>
    /\ UNCHANGED hashVars

\* find_word_candidates(&DICTIONARY, &clean_scrambled_word, None)
Pass1 ==
    /\ pc = "pass1"
    /\ DICTIONARY' = force(DICTIONARY, dictionary)
    /\ LET found == find_word_candidates(DICTIONARY'[1], clean_scrambled_word, <<>>)
       IN  /\ word_candidates' = found
           /\ calls' = <<[search_word |-> clean_scrambled_word, first_char |-> <<>>,
                          result |-> found]>>
           /\ pc' = IF needs_second_pass(found) THEN "pass2" ELSE "render"
    /\ UNCHANGED <<dictionary, scrambled_string, output, lines_left, first_line,
                   words_left, first_word, scrambled_word, clean_scrambled_word,
                   token_mark>>
    /\ UNCHANGED hashVars

\* find_word_candidates(&DICTIONARY, &clean_scrambled_word.to_lowercase(), first uppercase)
\* and the capitalisation of what it found
Pass2 ==
    /\ pc = "pass2"
    /\ DICTIONARY' = force(DICTIONARY, dictionary)
    /\ LET search == to_lowercase(clean_scrambled_word)
           first == first_uppercase(clean_scrambled_word)
           found == find_word_candidates(DICTIONARY'[1], search, first)
       IN  /\ word_candidates' =
                  [i \in 1..Len(found) |-> make_first_ascii_uppercase(found[i])]
           /\ calls' = Append(calls, [search_word |-> search, first_char |-> first,
                                      result |-> found])
    /\ pc' = "render"
    /\ UNCHANGED <<dictionary, scrambled_string, output, lines_left, first_line,
                   words_left, first_word, scrambled_word, clean_scrambled_word,
                   token_mark>>
    /\ UNCHANGED hashVars

\* the prefix chars, the body and the postfix chars are written; first_word is cleared
Render ==
    /\ pc = "render"
    /\ output' = output \o render_token(scrambled_word, clean_scrambled_word,
                                        word_candidates)
    /\ first_word' = FALSE
    /\ pc' = "unscramble_line"
    /\ UNCHANGED <<dictionary, scrambled_string, DICTIONARY, lines_left, first_line,
                   words_left, scrambled_word, clean_scrambled_word, word_candidates,
                   calls, token_mark>>
    /\ UNCHANGED hashVars

\* one step of the fold of associative_hash
HashStep ==
    /\ pc = "fold"
    /\ hash_rest # <<>>
    /\ hash_acc' = wrapping_add(hash_acc, u64_from(Head(hash_rest)))
    /\ hash_rest' = Tail(hash_rest)
    /\ UNCHANGED <<hash_input, hash_start, pc>>
    /\ UNCHANGED textVars

-----------------------------------------------------------------------------
(* the specifications *)

HashIdle ==
    /\ hash_input = <<>>
    /\ hash_start = U64_ZERO
    /\ hash_acc = U64_ZERO
    /\ hash_rest = <<>>

\* the state at the call of unscramble(&scrambled_string, &mut output)
AtCall ==
    /\ output = <<>>
    /\ DICTIONARY = <<>>
    /\ pc = "unscramble"
    /\ lines_left = lines(scrambled_string)
    /\ first_line = TRUE
    /\ words_left = <<>>
    /\ first_word = TRUE
    /\ scrambled_word = <<>>
    /\ clean_scrambled_word = <<>>
    /\ word_candidates = <<>>
    /\ calls = <<>>
    /\ token_mark = 0

\* resolver runs: a text of one token against a dictionary of lines from DictPool
\* or a dictionary of any one line over DictChars
Init ==
    /\ dictionary \in SeqsUpTo(DictPool, MaxDict)
                          \cup {<<w>> : w \in SeqsUpTo(DictChars, MaxWordLen)}
    /\ scrambled_string \in SeqsUpTo(TokenChars, MaxTokenLen)
    /\ AtCall
    /\ HashIdle

\* structure runs: a text with spaces, line breaks and special chars
InitText ==
    /\ dictionary \in SeqsUpTo(TextDictPool, MaxDict)
    /\ scrambled_string \in SeqsUpTo(TextChars, MaxTextLen)
    /\ AtCall
    /\ HashIdle

\* the accumulator values a fold is observed from: 0 (the call of associative_hash)
\* and, for a slice whose earlier bytes already sum to just below 2^64,
\* 2^64 - 256 and 2^64 - 1
HashStarts == {U64_ZERO, <<LIMB - 256, LIMB - 1, LIMB - 1, LIMB - 1>>, U64_MAX}

\* fingerprint runs
InitHash ==
    /\ hash_input \in SeqsUpTo(HashBytes, MaxBytes)
    /\ hash_start \in HashStarts
    /\ hash_acc = hash_start
    /\ hash_rest = hash_input
    /\ pc = "fold"
    /\ dictionary = <<>>
    /\ scrambled_string = <<>>
    /\ output = <<>>
    /\ DICTIONARY = <<>>
    /\ lines_left = <<>>
    /\ first_line = TRUE
    /\ words_left = <<>>
    /\ first_word = TRUE
    /\ scrambled_word = <<>>
    /\ clean_scrambled_word = <<>>
    /\ word_candidates = <<>>
    /\ calls = <<>>
    /\ token_mark = 0

Next == NextLine \/ Return \/ NextWord \/ EndLine \/ Pass1 \/ Pass2 \/ Render

NextHash == HashStep

Spec == Init /\ [][Next]_vars

SpecText == InitText /\ [][Next]_vars

SpecHash == InitHash /\ [][NextHash]_vars

-----------------------------------------------------------------------------
(* vocabulary of the properties *)

Chars(s) == {s[i] : i \in 1..Len(s)}

Occurrences(s, c) == Cardinality({i \in DOMAIN s : s[i] = c})

\* a and b are permutations of each other, case kept
SameLetters(a, b) ==
    /\ Len(a) = Len(b)
    /\ \A c \in Chars(a) \cup Chars(b) : Occurrences(a, c) = Occurrences(b, c)

\* r can be obtained from d by deleting entries
IsSubsequence(r, d) ==
    \E f \in [1..Len(r) -> 1..Len(d)] :
        /\ \A i \in 1..Len(r) : r[i] = d[f[i]]
        /\ \A i, j \in 1..Len(r) : i < j => f[i] < f[j]

Fingerprint(w) == associative_hash(as_bytes(w))

\* the bucket a search word is looked up in, taken from the dictionary itself
BucketOf(search) ==
    LET Same(d) == Fingerprint(d) = Fingerprint(search) IN SelectSeq(dictionary, Same)

\* the special-character sets as the specification lists them
PreSet == {40, 8222}

PostSet == {44, 46, 41, 8220, 58, 45, 63}

InPreSet(c) == c \in PreSet

InPostSet(c) == c \in PostSet

IsCore(c) == c \notin PreSet \cup PostSet

\* char::to_uppercase on Basic Latin and Latin-1 letters with a one-char upper case
Uppercased(c) ==
    IF (c >= 97 /\ c <= 122) \/ (c >= 224 /\ c <= 254 /\ c # 247) THEN c - 32 ELSE c

\* the current token has been rendered and nothing was written after it
Rendered ==
    /\ pc \in {"unscramble_line", "unscramble", "done"}
    /\ ~first_word
    /\ calls # <<>>

\* what was written for the current token, and its part between the special chars
TokenOutput == SubSeq(output, token_mark + 1, Len(output))

TokenBody ==
    SubSeq(TokenOutput, Len(SelectSeq(scrambled_word, InPreSet)) + 1,
           Len(TokenOutput) - Len(SelectSeq(scrambled_word, InPostSet)))

IsAscending(s) == \A i \in 1..(Len(s) - 1) : s[i] <= s[i + 1]

RECURSIVE QuotedEntries(_)
QuotedEntries(ws) ==
    IF ws = <<>> THEN <<>>
    ELSE <<34>> \o Head(ws) \o <<34>>
             \o (IF Len(ws) > 1 THEN <<44, 32>> ELSE <<>>) \o QuotedEntries(Tail(ws))

\* ["w1", "w2", ...]
ListText(ws) == <<91>> \o QuotedEntries(ws) \o <<93>>

-----------------------------------------------------------------------------
(* C1: find_word_candidates returns a bucket word iff it passes the first-letter  *)
(* filter and has the same per-character counts as search_word; a word that only  *)
(* collides on the fingerprint is never returned, forced first char or not.       *)
C1_ExactAnagramsOnly ==
    \A k \in 1..Len(calls) :
        LET call == calls[k]
            Wanted(d) == /\ first_char_filter(d, call.first_char)
                         /\ SameLetters(d, call.search_word)
        IN  call.result = SelectSeq(BucketOf(call.search_word), Wanted)

-----------------------------------------------------------------------------
(* C9: with no forced first char, find_word_candidates returns exactly the        *)
(* dictionary words that are case-sensitive permutations of search_word, in       *)
(* dictionary order: fingerprint equality plus the count filter exclude every     *)
(* word with another multiset.                                                    *)
C9_UnforcedExactPermutations ==
    \A k \in 1..Len(calls) :
        LET call == calls[k]
            IsAnagram(d) == SameLetters(d, call.search_word)
        IN  call.first_char = <<>> => call.result = SelectSeq(dictionary, IsAnagram)

\* an unforced call found a word while another word of the same bucket was excluded
C9_Witness ==
    /\ calls # <<>>
    /\ calls[1].first_char = <<>>
    /\ calls[1].result # <<>>
    /\ Len(BucketOf(calls[1].search_word)) > Len(calls[1].result)

-----------------------------------------------------------------------------
(* C10: with forced_first_char = Some(C) the first-letter filter keeps exactly    *)
(* the bucket words whose first char, uppercased, is C (so a lowercase word       *)
(* starting with the lowercase form of C passes), also for a non-ASCII C.         *)
C10_FirstLetterFilterUppercases ==
    \A k \in 1..Len(calls) :
        LET call == calls[k]
            bucket == BucketOf(call.search_word)
        IN  call.first_char # <<>> =>
                \A i \in 1..Len(bucket) :
                    first_char_filter(bucket[i], call.first_char)
                        <=> (bucket[i] # <<>> /\ Uppercased(bucket[i][1]) = call.first_char[1])

-----------------------------------------------------------------------------
(* C3: for every token the first call is pass 1 (the clean token as is, no forced *)
(* first char); pass 2 (lowercased clean token, first uppercase char forced) is   *)
(* made only after pass 1 returned nothing; when pass 1 returned candidates they  *)
(* are the rendered candidates, unchanged, and they are what is written.          *)
C3_SecondPassOnlyAfterEmptyFirst ==
    calls # <<>> =>
        /\ calls[1].search_word = SelectSeq(scrambled_word, IsCore)
        /\ calls[1].first_char = <<>>
        /\ Len(calls) <= 2
        /\ Len(calls) = 2 =>
               /\ calls[1].result = <<>>
               /\ calls[2].search_word = to_lowercase(calls[1].search_word)
               /\ calls[2].first_char = first_uppercase(calls[1].search_word)
        /\ calls[1].result # <<>> =>
               /\ Len(calls) = 1
               /\ word_candidates = calls[1].result
               /\ Rendered =>
                      TokenBody = (IF Len(calls[1].result) = 1 THEN calls[1].result[1]
                                   ELSE ListText(calls[1].result))

\* a token with an uppercase char was resolved by pass 1 alone and rendered
C3_Witness ==
    /\ Rendered
    /\ Len(calls) = 1
    /\ calls[1].result # <<>>
    /\ first_uppercase(clean_scrambled_word) # <<>>

-----------------------------------------------------------------------------
(* C4: when the clean token holds an uppercase char C and pass 1 found nothing,   *)
(* every candidate of pass 2 is rendered beginning with an uppercase char, and    *)
(* that char is C, the first uppercase char of the clean token.                   *)
C4_SecondPassCandidatesCapitalised ==
    (Len(calls) = 2 /\ \E i \in 1..Len(clean_scrambled_word) :
                           is_uppercase(clean_scrambled_word[i])) =>
        LET first == CHOOSE i \in 1..Len(clean_scrambled_word) :
                         /\ is_uppercase(clean_scrambled_word[i])
                         /\ \A j \in 1..(i - 1) : ~is_uppercase(clean_scrambled_word[j])
        IN  /\ Len(word_candidates) = Len(calls[2].result)
            /\ \A i \in 1..Len(word_candidates) :
                   /\ word_candidates[i] # <<>>
                   /\ is_uppercase(word_candidates[i][1])
                   /\ word_candidates[i][1] = clean_scrambled_word[first]
                   /\ Tail(word_candidates[i]) = Tail(calls[2].result[i])
            /\ (Rendered /\ Len(word_candidates) = 1) => TokenBody = word_candidates[1]

\* pass 2 found a word that starts with a lowercase letter, and it was rendered
C4_Witness ==
    /\ Rendered
    /\ Len(calls) = 2
    /\ calls[2].first_char # <<>>
    /\ calls[2].result # <<>>
    /\ ~is_uppercase(calls[2].result[1][1])

-----------------------------------------------------------------------------
(* C5: the body written for a token is decided by the number of final candidates: *)
(* none: the chars of the clean token (case kept, special chars removed) in       *)
(* ascending code-point order between backticks; one: that word as is; two or     *)
(* more: the bracketed list of all candidates, each in double quotes, separated   *)
(* by comma and space, in candidate order.                                        *)
C5_BodyByCandidateCount ==
    Rendered =>
        LET core == SelectSeq(scrambled_word, IsCore)
            n == Len(word_candidates)
            inner == SubSeq(TokenBody, 2, Len(TokenBody) - 1)
        IN  /\ n = 0 => /\ Len(TokenBody) = Len(core) + 2
                        /\ TokenBody[1] = 96
                        /\ TokenBody[Len(TokenBody)] = 96
                        /\ IsAscending(inner)
                        /\ SameLetters(inner, core)
            /\ n = 1 => TokenBody = word_candidates[1]
            /\ n >= 2 => TokenBody = ListText(word_candidates)

\* an unresolved token whose chars were not in ascending order was rendered
C5_Witness ==
    /\ Rendered
    /\ word_candidates = <<>>
    /\ ~IsAscending(clean_scrambled_word)

-----------------------------------------------------------------------------
(* C8: the index holds, per fingerprint, the dictionary words with that           *)
(* fingerprint in dictionary order; what find_word_candidates returns is a        *)
(* subsequence of the dictionary; the list rendering keeps that order.            *)
C8_CandidatesInDictionaryOrder ==
    /\ DICTIONARY # <<>> =>
           /\ DOMAIN DICTIONARY[1] = {Fingerprint(dictionary[i]) : i \in 1..Len(dictionary)}
           /\ \A key \in DOMAIN DICTIONARY[1] :
                  LET HasKey(d) == Fingerprint(d) = key
                  IN  DICTIONARY[1][key] = SelectSeq(dictionary, HasKey)
    /\ \A k \in 1..Len(calls) : IsSubsequence(calls[k].result, dictionary)
    /\ (Rendered /\ Len(word_candidates) >= 2) =>
           /\ Len(word_candidates) = Len(calls[Len(calls)].result)
           /\ \A i \in 1..Len(word_candidates) :
                  LET shown == word_candidates[i]
                      found == calls[Len(calls)].result[i]
                  IN  /\ Len(shown) = Len(found)
                      /\ \A j \in 2..Len(found) : shown[j] = found[j]
                      /\ found # <<>> => Uppercased(shown[1]) = Uppercased(found[1])
           /\ TokenBody = ListText(word_candidates)

\* two different words of one bucket were found and rendered as a list
C8_Witness ==
    /\ Rendered
    /\ Len(word_candidates) >= 2
    /\ word_candidates[1] # word_candidates[2]

-----------------------------------------------------------------------------
-----------------------------------------------------------------------------
(* lines and tokens of a text, read off the text itself *)

LineFeeds(s) == {i \in 1..Len(s) : s[i] = 10}

\* the lines of s: one per line feed, and one more for a non-empty rest
LineCount(s) ==
    Cardinality(LineFeeds(s)) + (IF s # <<>> /\ s[Len(s)] # 10 THEN 1 ELSE 0)

\* the i-th line of s, for i in 1..LineCount(s)
LineAt(s, i) ==
    LET before == {p \in LineFeeds(s) : Cardinality({q \in LineFeeds(s) : q < p}) = i - 2}
        ending == {p \in LineFeeds(s) : Cardinality({q \in LineFeeds(s) : q < p}) = i - 1}
        from == IF i = 1 THEN 1 ELSE (CHOOSE p \in before : TRUE) + 1
        to == IF ending = {} THEN Len(s) ELSE (CHOOSE p \in ending : TRUE) - 1
    IN  SubSeq(s, from, to)

\* the whitespace-delimited tokens of an input line: the places where one starts
TokenCount(line) ==
    Cardinality({i \in 1..Len(line) :
                     /\ ~is_ascii_whitespace(line[i])
                     /\ (i = 1 \/ is_ascii_whitespace(line[i - 1]))})

\* the space-joined units of an output line; the spaces inside a bracketed
\* candidate list do not separate units
JoinedCount(line) ==
    IF line = <<>> THEN 0
    ELSE 1 + Cardinality({i \in 1..Len(line) :
                 /\ line[i] = 32
                 /\ Cardinality({j \in 1..i : line[j] = 91})
                        = Cardinality({j \in 1..i : line[j] = 93})})

SameTokenCounts(n) ==
    \A i \in 1..n : JoinedCount(LineAt(output, i)) = TokenCount(LineAt(scrambled_string, i))

\* the last line of the input holds no token
LastLineBlank ==
    /\ scrambled_string # <<>>
    /\ TokenCount(LineAt(scrambled_string, LineCount(scrambled_string))) = 0

-----------------------------------------------------------------------------
(* C7, as claimed: for every input text the output has as many lines as the       *)
(* input, and each output line as many space-joined tokens as its input line has  *)
(* whitespace-delimited tokens, also for empty lines.                             *)
C7_StructurePreserved ==
    pc = "done" =>
        /\ LineCount(output) = LineCount(scrambled_string)
        /\ SameTokenCounts(LineCount(scrambled_string))

(* C7, amended: that holds when the last input line holds a token (or the input   *)
(* has no line); when the last input line is empty or blank the output ends with  *)
(* the line break written before it and so has one line less, the remaining       *)
(* lines still agreeing in their token counts.                                    *)
C7_StructurePreservedButBlankLastLine ==
    pc = "done" =>
        /\ LineCount(output) = LineCount(scrambled_string) - (IF LastLineBlank THEN 1 ELSE 0)
        /\ SameTokenCounts(LineCount(output))

\* a text of two lines or more, one of them with blanks around a token, was
\* unscrambled, the last line holding a token
C7_Witness ==
    /\ pc = "done"
    /\ LineCount(scrambled_string) >= 2
    /\ ~LastLineBlank
    /\ \E i \in 1..LineCount(scrambled_string) :
           /\ TokenCount(LineAt(scrambled_string, i)) >= 1
           /\ Contains(LineAt(scrambled_string, i), 32)

-----------------------------------------------------------------------------
(* the byte sum of a slice, read off the slice itself *)

RECURSIVE ByteSum(_)
ByteSum(s) == IF s = <<>> THEN 0 ELSE Head(s) + ByteSum(Tail(s))

\* the u64 that is n modulo 2^64, for -LIMB < n < LIMB * LIMB / 2
U64Of(n) ==
    IF n >= 0 THEN <<n % LIMB, n \div LIMB, 0, 0>>
    ELSE <<LIMB + n, LIMB - 1, LIMB - 1, LIMB - 1>>

\* the value of hash_start as an integer modulo 2^64
StartValue ==
    IF hash_start = U64_ZERO THEN 0 ELSE IF hash_start = U64_MAX THEN -1 ELSE -256

Rearrangements(s) ==
    {[i \in 1..Len(s) |-> s[f[i]]] :
        f \in {g \in [1..Len(s) -> 1..Len(s)] : \A i, j \in 1..Len(s) : i # j => g[i] # g[j]}}

-----------------------------------------------------------------------------
(* C2: associative_hash is the sum of the bytes modulo 2^64 and is the same for   *)
(* every permutation of the bytes, also when the sum wraps around.                *)
C2_HashIsPermutationInvariantSum ==
    /\ associative_hash(hash_input) = U64Of(ByteSum(hash_input))
    /\ fold(hash_start, hash_input) = U64Of(StartValue + ByteSum(hash_input))
    /\ \A p \in Rearrangements(hash_input) :
           /\ associative_hash(p) = associative_hash(hash_input)
           /\ fold(hash_start, p) = fold(hash_start, hash_input)
    /\ hash_rest = <<>> => hash_acc = fold(hash_start, hash_input)

\* a fold over unequal bytes ended after its sum had wrapped around
C2_Witness ==
    /\ pc = "fold"
    /\ hash_rest = <<>>
    /\ hash_start # U64_ZERO
    /\ hash_acc[4] = 0
    /\ \E i, j \in 1..Len(hash_input) : hash_input[i] # hash_input[j]

=============================================================================
